---- MODULE Spec2Model ----
(***************************************************************************)
(* Model of format_transcript.py: the text splitter (split_text), the      *)
(* annotator with its retry loop (format_transcript), the output writer    *)
(* (write_to_file) and the driver (main).                                  *)
(*                                                                         *)
(* Strings are sequences of one-character strings.  Python indices are     *)
(* kept 0-based where the code computes with them (split_at); slices are   *)
(* translated to SubSeq.                                                   *)
(***************************************************************************)
EXTENDS Integers, Sequences, FiniteSets, TLC

\* ---------------------------------------------------------------- bounds
MaxLen == 4          \* longest enumerated input text of split_text
MaxTokBound == 3     \* largest enumerated max_tokens of split_text
MaxRetriesBound == 2 \* largest enumerated --max_retries
MainLen == 3         \* longest enumerated input file content in a run of main

\* main calls split_text(raw_text, max_tokens=2000).  The model of a run
\* scales the literal down to this bound, so that a file of at most MainLen
\* characters still yields several chunks.
MainMaxTokens == 2

Alphabet == {"a", "b", ".", " "}
Whitespace == {" ", "\n"}

\* ------------------------------------------------------- string helpers
\* str.strip(): drop leading and trailing whitespace.
RECURSIVE LStrip(_)
LStrip(s) == IF s # <<>> /\ Head(s) \in Whitespace THEN LStrip(Tail(s)) ELSE s

RECURSIVE RStrip(_)
RStrip(s) ==
  IF s # <<>> /\ s[Len(s)] \in Whitespace
    THEN RStrip(SubSeq(s, 1, Len(s) - 1))
    ELSE s

Strip(s) == RStrip(LStrip(s))

\* text[:n] and text[n:] for 0 <= n (Python clamps n to len(text)).
Take(s, n) == SubSeq(s, 1, IF n > Len(s) THEN Len(s) ELSE n)
Drop(s, n) == SubSeq(s, n + 1, Len(s))

\* text.rfind('.', 0, end): 0-based index of the last period among
\* text[0:end], or -1.
RFindPeriod(s, end) ==
  LET lim == IF end > Len(s) THEN Len(s) ELSE end
      hits == {i \in 1..lim : s[i] = "."}
  IN IF hits = {} THEN -1
     ELSE (CHOOSE i \in hits : \A j \in hits : j <= i) - 1

\* the characters of s that are not whitespace, in order
RECURSIVE NonWs(_)
NonWs(s) ==
  IF s = <<>> THEN <<>>
  ELSE IF Head(s) \in Whitespace THEN NonWs(Tail(s))
  ELSE <<Head(s)>> \o NonWs(Tail(s))

RECURSIVE Concat(_)
Concat(ss) == IF ss = <<>> THEN <<>> ELSE Head(ss) \o Concat(Tail(ss))

\* all sequences over S of length at most n
RECURSIVE SeqsUpTo(_, _)
SeqsUpTo(S, n) ==
  IF n = 0 THEN {<<>>}
  ELSE LET shorter == SeqsUpTo(S, n - 1)
       IN shorter \cup {Append(s, c) : s \in {t \in shorter : Len(t) = n - 1}, c \in S}

\* -------------------------------------------------- split_text, pure form
\* mutant of LoopCond: the loop stops one character early
LoopCondOffByOne(t, max_tokens) == Len(t) > max_tokens + 1

\* while len(text) > max_tokens
LoopCond(t, max_tokens) == Len(t) > max_tokens

\* split_at = text.rfind('.', 0, max_tokens); if -1: split_at = max_tokens
SplitAt(t, max_tokens) ==
  LET r == RFindPeriod(t, max_tokens)
  IN IF r = -1 THEN max_tokens ELSE r

\* chunk = text[:split_at].strip()
ChunkOf(t, max_tokens) == Strip(Take(t, SplitAt(t, max_tokens)))

\* mutant of RestOf: the empty-chunk branch advances by split_at, like the
\* other branch, instead of by max_tokens
RestOfNoAdvance(t, max_tokens) == Strip(Drop(t, SplitAt(t, max_tokens)))

\* the text left after one iteration of the loop
RestOf(t, max_tokens) ==
  IF ChunkOf(t, max_tokens) # <<>>
    THEN Strip(Drop(t, SplitAt(t, max_tokens)))
    ELSE Strip(Drop(t, max_tokens))

\* the tail after the loop: if text: chunks.append(text)
FinalChunks(t) == IF t # <<>> THEN <<t>> ELSE <<>>

\* ------------------------------------------------------------------ state
VARIABLES
  pc,            \* position of the run: "start", "read", "split", "for",
                 \* "format", "write", "exit"
  provided_key,  \* args.api_key is set
  env_key,       \* OPENAI_API_KEY is set
  max_retries,   \* args.max_retries
  input,         \* the text split_text was called with
  max_tokens,    \* the max_tokens split_text was called with
  text,          \* split_text: the remaining text
  chunks,        \* split_text: the chunks so far; afterwards main's list
  idx,           \* main: number of chunks whose result has been written
  attempt,       \* format_transcript: attempt
  nreq,          \* completion requests issued by the current call
  sleeps,        \* wait_time values slept by the current call, in order
  last,          \* outcome of the latest request of the current call
  ret,           \* value format_transcript returned to main
  annotated,     \* values format_transcript has returned, in call order
  pre,           \* content of the output file before the run
  file,          \* content of the output file
  opened_input,  \* read_input_file has tried to open the input file
  diag,          \* which logging.error diagnostic preceded sys.exit(1)
  exit_status    \* process exit status, Running while the process lives

vars == <<pc, provided_key, env_key, max_retries, input, max_tokens, text,
          chunks, idx, attempt, nreq, sleeps, last, ret, annotated, pre,
          file, opened_input, diag, exit_status>>

splitVars == <<input, max_tokens, text, chunks>>
callVars == <<attempt, nreq, sleeps, last>>
argVars == <<provided_key, env_key, max_retries, pre>>

Running == 0 - 1

Unset == [kind |-> "unset", val |-> <<>>]
None == [kind |-> "none", val |-> <<>>]
Str(s) == [kind |-> "str", val |-> s]

\* f.write("\n\n")
Separator == <<"\n", "\n">>

\* file contents that may exist before the run
PreContents == {<<>>, <<"o", "\n">>}

\* response.choices[0].message.content of a successful completion
Responses == {<<"x">>, <<" ", "y", "\n">>}

MainAlphabet == {"a", ".", " "}
MainTexts == SeqsUpTo(MainAlphabet, MainLen)

SplitTexts == SeqsUpTo(Alphabet, MaxLen)

ExampleText ==
  <<"H", "e", "l", "l", "o", " ", "w", "o", "r", "l", "d", ".", " ",
    "T", "h", "i", "s", " ", "i", "s", " ", "a", " ", "t", "e", "s", "t", ".">>

\* sys.exit(code)
Exit(code, d) == pc' = "exit" /\ exit_status' = code /\ diag' = d

\* 2 ** attempt
RECURSIVE Pow2(_)
Pow2(n) == IF n <= 0 THEN 1 ELSE 2 * Pow2(n - 1)

\* wait_time = 2 ** attempt
WaitTime(a) == Pow2(a)

\* while attempt <= max_retries
RetryCond(a, m) == a <= m

\* mutant of RetriesExceeded: gives up one retry early
RetriesExceededOffByOne(a, m) == a >= m

\* if attempt > max_retries: sys.exit(1)
RetriesExceeded(a, m) == a > m

\* ------------------------------------------------------------------- Init
TypeInit ==
  /\ idx = 0 /\ attempt = 0 /\ nreq = 0 /\ sleeps = <<>> /\ last = "none"
  /\ ret = Unset /\ annotated = <<>> /\ chunks = <<>>
  /\ opened_input = FALSE /\ diag = "none"
  /\ exit_status = Running

\* a run of main, before get_api_key
Init ==
  /\ pc = "start"
  /\ provided_key \in BOOLEAN
  /\ env_key \in BOOLEAN
  /\ max_retries \in (0 - 1)..MaxRetriesBound
  /\ pre \in PreContents
  /\ file = pre
  /\ input = <<>> /\ text = <<>>
  /\ max_tokens = MainMaxTokens
  /\ TypeInit

\* a call split_text(text, max_tokens) on its own
InitSplit ==
  /\ pc = "split"
  /\ provided_key = TRUE /\ env_key = FALSE /\ max_retries = 0
  /\ pre = <<>> /\ file = <<>>
  /\ \/ input \in SplitTexts /\ max_tokens \in 1..MaxTokBound
     \/ input = ExampleText /\ max_tokens = 15
  /\ text = input
  /\ TypeInit

\* ---------------------------------------------------------------- actions
\* get_api_key: a key from the command line or the environment
ApiKeyFound ==
  /\ pc = "start"
  /\ provided_key \/ env_key
  /\ pc' = "read"
  /\ UNCHANGED <<argVars, splitVars, callVars, idx, ret, annotated, file, diag, exit_status, opened_input>>

\* get_api_key: no key, sys.exit(1)
ApiKeyMissing ==
  /\ pc = "start"
  /\ ~(provided_key \/ env_key)
  /\ Exit(1, "api_key")
  /\ UNCHANGED <<argVars, splitVars, callVars, idx, ret, annotated, file, opened_input>>

\* read_input_file returns the content; main calls split_text on it
ReadInput ==
  /\ pc = "read"
  /\ \E t \in MainTexts : input' = t /\ text' = t
  /\ opened_input' = TRUE
  /\ pc' = "split"
  /\ UNCHANGED <<argVars, max_tokens, chunks, callVars, idx, ret, annotated, file, diag, exit_status>>

\* read_input_file: open or read raises, sys.exit(1)
ReadInputError ==
  /\ pc = "read"
  /\ opened_input' = TRUE
  /\ Exit(1, "read")
  /\ UNCHANGED <<argVars, splitVars, callVars, idx, ret, annotated, file>>

\* split_text: one iteration of the while loop
SplitIter ==
  /\ pc = "split"
  /\ LoopCond(text, max_tokens)
  /\ chunks' = IF ChunkOf(text, max_tokens) # <<>>
                 THEN Append(chunks, ChunkOf(text, max_tokens))
                 ELSE chunks
  /\ text' = RestOf(text, max_tokens)
  /\ UNCHANGED <<pc, argVars, input, max_tokens, callVars, idx, ret, annotated, file, diag, exit_status, opened_input>>

\* split_text: the loop ends, the tail is appended, the list is returned
SplitFinal ==
  /\ pc = "split"
  /\ ~LoopCond(text, max_tokens)
  /\ chunks' = chunks \o FinalChunks(text)
  /\ pc' = "for"
  /\ UNCHANGED <<argVars, input, max_tokens, text, callVars, idx, ret, annotated, file, diag, exit_status, opened_input>>

\* split_text: an exception inside the try block (MemoryError), sys.exit(1)
SplitError ==
  /\ pc = "split"
  /\ Exit(1, "split")
  /\ UNCHANGED <<argVars, splitVars, callVars, idx, ret, annotated, file, opened_input>>

\* main: the for loop takes the next chunk and calls format_transcript
BeginChunk ==
  /\ pc = "for"
  /\ idx < Len(chunks)
  /\ attempt' = 0 /\ nreq' = 0 /\ sleeps' = <<>> /\ last' = "none"
  /\ pc' = "format"
  /\ UNCHANGED <<argVars, splitVars, idx, ret, annotated, file, diag, exit_status, opened_input>>

\* main: the for loop is exhausted, main returns
Finish ==
  /\ pc = "for"
  /\ idx >= Len(chunks)
  /\ Exit(0, "none")
  /\ UNCHANGED <<argVars, splitVars, callVars, idx, ret, annotated, file, opened_input>>

\* format_transcript: the request succeeds, the stripped content is returned
RequestSuccess ==
  /\ pc = "format"
  /\ RetryCond(attempt, max_retries)
  /\ \E r \in Responses :
       /\ ret' = Str(Strip(r))
       /\ annotated' = Append(annotated, Strip(r))
  /\ nreq' = nreq + 1
  /\ last' = "ok"
  /\ pc' = "write"
  /\ UNCHANGED <<argVars, splitVars, attempt, sleeps, idx, file, diag, exit_status, opened_input>>

\* format_transcript: openai.RateLimitError
RequestRateLimit ==
  /\ pc = "format"
  /\ RetryCond(attempt, max_retries)
  /\ nreq' = nreq + 1
  /\ last' = "ratelimit"
  /\ attempt' = attempt + 1
  /\ IF RetriesExceeded(attempt + 1, max_retries)
       THEN Exit(1, "ratelimit") /\ sleeps' = sleeps
       ELSE /\ sleeps' = Append(sleeps, WaitTime(attempt + 1))
            /\ UNCHANGED <<pc, diag, exit_status>>
  /\ UNCHANGED <<argVars, splitVars, idx, ret, annotated, file, opened_input>>

\* mutant of RequestAPIError: the error is handled like a rate limit
RequestAPIErrorRetried ==
  /\ pc = "format"
  /\ RetryCond(attempt, max_retries)
  /\ nreq' = nreq + 1
  /\ last' = "apierror"
  /\ attempt' = attempt + 1
  /\ IF RetriesExceeded(attempt + 1, max_retries)
       THEN Exit(1, "apierror") /\ sleeps' = sleeps
       ELSE /\ sleeps' = Append(sleeps, WaitTime(attempt + 1))
            /\ UNCHANGED <<pc, diag, exit_status>>
  /\ UNCHANGED <<argVars, splitVars, idx, ret, annotated, file, opened_input>>

\* format_transcript: openai.APIError other than a rate limit, sys.exit(1)
RequestAPIError ==
  /\ pc = "format"
  /\ RetryCond(attempt, max_retries)
  /\ nreq' = nreq + 1
  /\ last' = "apierror"
  /\ Exit(1, "apierror")
  /\ UNCHANGED <<argVars, splitVars, attempt, sleeps, idx, ret, annotated, file, opened_input>>

\* format_transcript: any other exception, sys.exit(1)
RequestUnexpected ==
  /\ pc = "format"
  /\ RetryCond(attempt, max_retries)
  /\ nreq' = nreq + 1
  /\ last' = "unexpected"
  /\ Exit(1, "unexpected")
  /\ UNCHANGED <<argVars, splitVars, attempt, sleeps, idx, ret, annotated, file, opened_input>>

\* format_transcript: the while condition is false, the function falls off
\* its end and returns None
ReturnNone ==
  /\ pc = "format"
  /\ ~RetryCond(attempt, max_retries)
  /\ ret' = None
  /\ annotated' = annotated
  /\ pc' = "write"
  /\ UNCHANGED <<argVars, splitVars, callVars, idx, file, diag, exit_status, opened_input>>

\* what write_to_file writes for content: content, then the separator
Written(content) == content \o Separator

\* write_to_file: both writes succeed; main goes on to the next chunk
WriteOk ==
  /\ pc = "write"
  /\ ret.kind = "str"
  /\ file' = file \o Written(ret.val)
  /\ idx' = idx + 1
  /\ pc' = "for"
  /\ UNCHANGED <<argVars, splitVars, callVars, ret, annotated, diag, exit_status, opened_input>>

\* mutant of WriteOpenError: the error is logged and the run goes on
WriteOpenErrorIgnored ==
  /\ pc = "write"
  /\ idx' = idx + 1
  /\ pc' = "for"
  /\ UNCHANGED <<argVars, splitVars, callVars, ret, annotated, file, diag, exit_status, opened_input>>

\* write_to_file: open raises, sys.exit(1)
WriteOpenError ==
  /\ pc = "write"
  /\ Exit(1, "write")
  /\ UNCHANGED <<argVars, splitVars, callVars, idx, ret, annotated, file, opened_input>>

\* write_to_file: f.write(None) raises TypeError, sys.exit(1)
WriteTypeError ==
  /\ pc = "write"
  /\ ret.kind = "none"
  /\ Exit(1, "write")
  /\ UNCHANGED <<argVars, splitVars, callVars, idx, ret, annotated, file, opened_input>>

\* write_to_file: a write or the closing flush raises OSError after part of
\* the data reached the file, sys.exit(1)
WriteIOError ==
  /\ pc = "write"
  /\ ret.kind = "str"
  /\ \E n \in 1..(Len(Written(ret.val)) - 1) :
       file' = file \o Take(Written(ret.val), n)
  /\ Exit(1, "write")
  /\ UNCHANGED <<argVars, splitVars, callVars, idx, ret, annotated, opened_input>>

\* ------------------------------------------------------- specifications
NextSplit == SplitIter \/ SplitFinal

Next ==
  \/ ApiKeyFound
  \/ ApiKeyMissing
  \/ ReadInput
  \/ ReadInputError
  \/ SplitIter
  \/ SplitFinal
  \/ SplitError
  \/ BeginChunk
  \/ Finish
  \/ RequestSuccess
  \/ RequestRateLimit
  \/ RequestAPIError
  \/ RequestUnexpected
  \/ ReturnNone
  \/ WriteOk
  \/ WriteOpenError
  \/ WriteTypeError
  \/ WriteIOError

\* a run of main
Spec == Init /\ [][Next]_vars

\* a call of split_text
SplitSpec == InitSplit /\ [][NextSplit]_vars

\* a call of split_text that keeps executing: the loop is sequential code,
\* so an enabled step is eventually taken
SplitLive == InitSplit /\ [][NextSplit]_vars /\ WF_vars(NextSplit)

\* ------------------------------------------------------------- properties
\* split_text has returned its list
SplitReturned == pc = "for"

\* each text followed by one separator, in order
RECURSIVE Joined(_)
Joined(ts) == IF ts = <<>> THEN <<>> ELSE Head(ts) \o Separator \o Joined(Tail(ts))

\* C1: the chunks split_text returns, concatenated in order, hold exactly
\* the non-whitespace characters of the input text, in order.
C1_ContentPreserved ==
  SplitReturned => NonWs(Concat(chunks)) = NonWs(input)

\* C2: no chunk is longer than max_tokens, except possibly the final chunk
\* of the returned list, and then only when it holds no period among its
\* first max_tokens characters (no split point).
C2_ChunkSizeBound ==
  \A i \in 1..Len(chunks) :
    Len(chunks[i]) > max_tokens =>
      /\ SplitReturned
      /\ i = Len(chunks)
      /\ \A j \in 1..max_tokens : chunks[i][j] # "."

\* C2 witness: a returned list of several chunks, one of them of exactly
\* max_tokens characters, from an input without periods.
C2_Witness ==
  /\ SplitReturned
  /\ Len(chunks) >= 2
  /\ \E i \in 1..Len(chunks) : Len(chunks[i]) = max_tokens
  /\ \A j \in 1..Len(input) : input[j] # "."

\* C3: every iteration of the splitting loop strictly shortens the
\* remaining text, and split_text returns.
C3_Terminates ==
  /\ [][SplitIter => Len(text') < Len(text)]_vars
  /\ <>SplitReturned

\* C3 witness: split_text has returned on an input longer than
\* max_tokens whose only period among the first max_tokens characters is
\* the first character.
C3_Witness ==
  /\ SplitReturned
  /\ Len(input) > max_tokens
  /\ RFindPeriod(input, max_tokens) = 0

\* C7: "Hello world. This is a test." with max_tokens 15 is split into
\* "Hello world." and "This is a test.".
C7_Example ==
  (SplitReturned /\ input = ExampleText /\ max_tokens = 15) =>
    chunks = << <<"H", "e", "l", "l", "o", " ", "w", "o", "r", "l", "d", ".">>,
                <<"T", "h", "i", "s", " ", "i", "s", " ", "a", " ", "t", "e", "s", "t", ".">> >>

\* C8: an input shorter than max_tokens yields exactly one chunk, the
\* input with leading and trailing whitespace removed.
C8_ShortInput ==
  (SplitReturned /\ Len(input) < max_tokens) => chunks = <<Strip(input)>>

\* C4: with max_retries = N >= 0 a call issues at most N+1 requests; when
\* every request is rate limited the process exits with status 1 after
\* exactly N+1 requests; the k-th sleep lasts 2^k seconds, k = 1..N.
C4_RetryBound ==
  max_retries >= 0 =>
    /\ nreq <= max_retries + 1
    /\ Len(sleeps) <= max_retries
    /\ \A k \in 1..Len(sleeps) : sleeps[k] = 2^k
    /\ last = "ratelimit" =>
         /\ Len(sleeps) = IF pc = "exit" THEN nreq - 1 ELSE nreq
         /\ (nreq = max_retries + 1) = (pc = "exit")
         /\ pc = "exit" => exit_status = 1

\* C4 witness: retries exhausted after at least two backoff sleeps.
C4_Witness ==
  /\ pc = "exit" /\ last = "ratelimit"
  /\ max_retries >= 2
  /\ nreq = max_retries + 1
  /\ Len(sleeps) = max_retries

\* C5: the output file holds the pre-existing content followed by the
\* results of chunks 1..idx, each followed by one separator, and nothing
\* else; chunk idx+1 is requested only after the result of chunk idx has
\* been appended.
C5_FilePrefix ==
  /\ file = pre \o Joined(SubSeq(annotated, 1, idx))
  /\ pc = "format" => Len(annotated) = idx

\* C6: format_transcript returns to main only with the trimmed text of a
\* successful response, whatever max_retries is.
C6_ReturnsOnlySuccess ==
  pc = "write" => (ret.kind = "str" /\ last = "ok")

\* C9: a non-retryable error ends the process with status 1 at once: after
\* r rate-limit retries the call has issued r+1 requests and slept r times.
C9_NonRetryable ==
  last \in {"apierror", "unexpected"} =>
    /\ pc = "exit" /\ exit_status = 1
    /\ nreq = Len(sleeps) + 1
    /\ attempt = Len(sleeps)

\* C9 witness: a non-retryable error after a rate-limit retry.
C9_Witness ==
  /\ last = "apierror" /\ pc = "exit"
  /\ Len(sleeps) >= 1
  /\ nreq = Len(sleeps) + 1

\* C10: exit status 0 only when every chunk has been annotated and
\* appended in order; every fatal condition gives exit status 1 and the
\* process then does nothing more; a missing credential is detected before
\* the input file is opened.
C10_ExitStatus ==
  /\ exit_status = 0 =>
       /\ pc = "exit" /\ diag = "none"
       /\ idx = Len(chunks) /\ Len(annotated) = Len(chunks)
       /\ file = pre \o Joined(annotated)
  /\ diag # "none" <=> exit_status = 1
  /\ exit_status # Running <=> pc = "exit"
  /\ pc = "exit" => ~ENABLED Next
  /\ ~(provided_key \/ env_key) =>
       /\ ~opened_input
       /\ pc = "exit" => diag = "api_key"

\* C10 witness: a run that ended with status 0 after several chunks.
C10_Witness ==
  /\ exit_status = 0
  /\ Len(chunks) >= 2

====
